---- MODULE Spec2Model ----
(***************************************************************************)
(* A model of check_file_sizes.py: the ignore-pattern matcher, the path    *)
(* classifier, the line counter, the directory walk of main() and its      *)
(* report.  Strings are sequences of one-character strings, so that glob   *)
(* matching, separator normalisation, lower-casing and suffix extraction   *)
(* are computed character by character as the Python code computes them.   *)
(***************************************************************************)
EXTENDS Integers, Sequences, FiniteSets, TLC

VARIABLES
    pc,               \* position of the running program / harness
    m_path,           \* should_ignore: argument file_path
    m_patterns,       \* should_ignore: argument ignore_patterns
    m_result,         \* should_ignore: returned value ("none" before the call)
    c_segs,           \* categorize_file: the segments the argument is built of
    c_path,           \* categorize_file: argument file_path
    c_category,       \* categorize_file: returned value ("none" before the call)
    fs,               \* the directory tree under the root: listing and contents
    failing,          \* the files whose open() raises OSError
    gitignore,        \* the ignore file: exists, readable, lines
    ignore_patterns,  \* main: ignore_patterns
    stack,            \* os.walk: directories still to be yielded, next first
    root,             \* main: root of the current os.walk triple
    files,            \* main: files of the current triple not yet iterated
    client_files,     \* main: client_files
    server_files,     \* main: server_files
    other_files,      \* main: other_files
    visited,          \* history: the directories os.walk has yielded
    walk_order,       \* history: rel_path of every file the loop has iterated
    raised_in,        \* the function an exception propagated out of, or "none"
    report            \* what main printed: the sections and the summary

matchVars == <<m_path, m_patterns, m_result>>

classVars == <<c_segs, c_path, c_category>>

envVars == <<fs, failing, gitignore>>

mainVars == <<ignore_patterns, stack, root, files, client_files, server_files,
              other_files, visited, walk_order, raised_in, report>>

vars == <<pc, matchVars, classVars, envVars, mainVars>>

----------------------------------------------------------------------------
(* Bounds.                                                                 *)

\* matcher harness: longest path and longest pattern
MaxPathLen == 3

MaxPatLen == 3

\* classifier harness: most segments of a path
MaxSegs == 3

\* walk: most newline characters of a file whose content is drawn
MaxNewlines == 1

PathChars == {"a", "/", "\\"}

PatChars == {"a", "*", "/", "\\", "[", "]"}

StringsOver(chars, n) == UNION {[1..k -> chars] : k \in 0..n}

----------------------------------------------------------------------------
(* str methods used by the program.                                        *)

\* s.replace('\\', '/')
replace_backslash(s) == [i \in 1..Len(s) |-> IF s[i] = "\\" THEN "/" ELSE s[i]]

\* s.endswith(t)
endswith(s, t) ==
    /\ Len(t) <= Len(s)
    /\ \A i \in 1..Len(t) : s[Len(s) - Len(t) + i] = t[i]

\* s.startswith(t)
startswith(s, t) ==
    /\ Len(t) <= Len(s)
    /\ \A i \in 1..Len(t) : s[i] = t[i]

\* t in s  (substring test)
contains(s, t) ==
    \E k \in 0..(Len(s) - Len(t)) : \A i \in 1..Len(t) : s[k + i] = t[i]

\* os.path.basename on POSIX: what follows the last '/'
basename(s) ==
    LET slashes == {i \in 1..Len(s) : s[i] = "/"}
        last == IF slashes = {} THEN 0
                ELSE CHOOSE i \in slashes : \A j \in slashes : j <= i
    IN  SubSeq(s, last + 1, Len(s))

----------------------------------------------------------------------------
(* fnmatch.fnmatch on POSIX (normcase is the identity): '*' any sequence,  *)
(* '?' any one character, '[seq]' / '[!seq]' a character class, anything   *)
(* else itself.  A '[' with no closing ']' is a literal '['; a ']' right   *)
(* after '[' or '[!' belongs to the class.  Ranges ('-') are not modelled: *)
(* no string of the model holds a '-'.                                     *)

RECURSIVE ScanClose(_, _)
ScanClose(pat, j) ==
    IF j > Len(pat) THEN 0
    ELSE IF pat[j] = "]" THEN j
    ELSE ScanClose(pat, j + 1)

\* index of the ']' closing the class opened at pat[j] = '[', or 0
BracketEnd(pat, j) ==
    LET j1 == IF j + 1 <= Len(pat) /\ pat[j + 1] = "!" THEN j + 2 ELSE j + 1
        j2 == IF j1 <= Len(pat) /\ pat[j1] = "]" THEN j1 + 1 ELSE j1
    IN  ScanClose(pat, j2)

\* whether character c is in the class pat[j] = '[' ... pat[k] = ']'
InClass(c, pat, j, k) ==
    IF pat[j + 1] = "!"
    THEN \A i \in (j + 2)..(k - 1) : pat[i] # c
    ELSE \E i \in (j + 1)..(k - 1) : pat[i] = c

RECURSIVE MatchFrom(_, _, _, _)
MatchFrom(name, i, pat, j) ==
    IF j > Len(pat) THEN i > Len(name)
    ELSE IF pat[j] = "*"
    THEN \E k \in i..(Len(name) + 1) : MatchFrom(name, k, pat, j + 1)
    ELSE IF pat[j] = "?"
    THEN i <= Len(name) /\ MatchFrom(name, i + 1, pat, j + 1)
    ELSE IF pat[j] = "[" /\ BracketEnd(pat, j) # 0
    THEN /\ i <= Len(name)
         /\ InClass(name[i], pat, j, BracketEnd(pat, j))
         /\ MatchFrom(name, i + 1, pat, BracketEnd(pat, j) + 1)
    ELSE /\ i <= Len(name)
         /\ name[i] = pat[j]
         /\ MatchFrom(name, i + 1, pat, j + 1)

fnmatch(name, pat) == MatchFrom(name, 1, pat, 1)

----------------------------------------------------------------------------
(* should_ignore                                                           *)

\* line 24: the test of a pattern that ends with '/'
DirectoryTest(p, pattern) ==
    \/ fnmatch(p \o <<"/">>, <<"*", "/">> \o pattern)
    \/ fnmatch(p \o <<"/">>, pattern)

\* the whole path alone
SimpleTest_NoBasename(p, pattern) == fnmatch(p, pattern)

\* line 27: the whole path, or its basename, against the pattern
SimpleTest(p, pattern) ==
    \/ fnmatch(p, pattern)
    \/ fnmatch(basename(p), pattern)

\* line 30: a pattern holding a '/', anchored below any directory
PathScopedTest(p, pattern) ==
    /\ \E i \in 1..Len(pattern) : pattern[i] = "/"
    /\ fnmatch(p, <<"*", "/">> \o pattern)

\* the chain with its first elif an if: every test that applies is made
PatternHit_AllTests(p, pattern) ==
    \/ endswith(pattern, <<"/">>) /\ DirectoryTest(p, pattern)
    \/ SimpleTest(p, pattern)
    \/ PathScopedTest(p, pattern)

\* lines 23-31: the if / elif / elif chain for one pattern
PatternHit(p, pattern) ==
    IF endswith(pattern, <<"/">>)
    THEN DirectoryTest(p, pattern)
    ELSE SimpleTest(p, pattern) \/ PathScopedTest(p, pattern)

\* the final return inside the loop: only the first pattern is tried
should_ignore_FirstPatternOnly(file_path, patterns) ==
    /\ patterns # <<>>
    /\ PatternHit(replace_backslash(file_path), patterns[1])

\* lines 17-33: True at the first pattern that hits, False after the last
should_ignore(file_path, patterns) ==
    LET p == replace_backslash(file_path)
    IN  \E k \in 1..Len(patterns) : PatternHit(p, patterns[k])

----------------------------------------------------------------------------
(* categorize_file                                                         *)

UpperLetters == <<"A", "B", "C", "D", "E", "F", "G", "H", "I", "J", "K", "L", "M", "N", "O", "P", "Q", "R", "S", "T", "U", "V", "W", "X", "Y", "Z">>

LowerLetters == <<"a", "b", "c", "d", "e", "f", "g", "h", "i", "j", "k", "l", "m", "n", "o", "p", "q", "r", "s", "t", "u", "v", "w", "x", "y", "z">>

\* the lower-case letter of each upper-case one
lower_of ==
    [c \in {UpperLetters[n] : n \in 1..Len(UpperLetters)} |->
        LowerLetters[CHOOSE n \in 1..Len(UpperLetters) : UpperLetters[n] = c]]

\* s.lower()
lower(s) ==
    [i \in 1..Len(s) |-> IF s[i] \in DOMAIN lower_of THEN lower_of[s[i]] ELSE s[i]]

\* the two tests in the other order
categorize_file_ServerFirst(file_path) ==
    LET normalized_path == lower(replace_backslash(file_path))
    IN  IF \/ contains(normalized_path, <<"/", "s", "e", "r", "v", "e", "r", "/">>)
           \/ startswith(normalized_path, <<"s", "e", "r", "v", "e", "r", "/">>)
        THEN "server"
        ELSE IF \/ contains(normalized_path, <<"/", "c", "l", "i", "e", "n", "t", "/">>)
                \/ startswith(normalized_path, <<"c", "l", "i", "e", "n", "t", "/">>)
        THEN "client"
        ELSE "other"

\* lines 55-64
categorize_file(file_path) ==
    LET normalized_path == lower(replace_backslash(file_path))
    IN  IF \/ contains(normalized_path, <<"/", "c", "l", "i", "e", "n", "t", "/">>)
           \/ startswith(normalized_path, <<"c", "l", "i", "e", "n", "t", "/">>)
        THEN "client"
        ELSE IF \/ contains(normalized_path, <<"/", "s", "e", "r", "v", "e", "r", "/">>)
                \/ startswith(normalized_path, <<"s", "e", "r", "v", "e", "r", "/">>)
        THEN "server"
        ELSE "other"

----------------------------------------------------------------------------
(* parse_gitignore                                                         *)

\* a byte that is not valid UTF-8
BadByte == "0xFF"

Whitespace == {" ", "\t", "\n", "\r", "\f"}

\* decoding with errors='ignore': undecodable bytes are dropped
decode_ignore(bytes) == SelectSeq(bytes, LAMBDA b : b # BadByte)

\* s.strip()
strip(s) ==
    LET inked == {i \in 1..Len(s) : s[i] \notin Whitespace}
    IN  IF inked = {} THEN <<>>
        ELSE SubSeq(s, CHOOSE i \in inked : \A j \in inked : i <= j,
                       CHOOSE i \in inked : \A j \in inked : j <= i)

\* lines 11-14: the stripped lines that are neither empty nor comments
RECURSIVE PatternLines(_)
PatternLines(lines) ==
    IF lines = <<>> THEN <<>>
    ELSE LET line == strip(decode_ignore(Head(lines)))
         IN  IF line # <<>> /\ ~startswith(line, <<"#">>)
             THEN <<line>> \o PatternLines(Tail(lines))
             ELSE PatternLines(Tail(lines))

\* lines 6-15: a missing file gives no patterns; open() of a file that
\* exists and cannot be read raises OSError, which nothing here catches
parse_gitignore(ignore_file) ==
    IF ~ignore_file.exists THEN [raised |-> FALSE, value |-> <<>>]
    ELSE IF ~ignore_file.readable THEN [raised |-> TRUE, value |-> <<>>]
    ELSE [raised |-> FALSE, value |-> PatternLines(ignore_file.lines)]

\* lines 90-99: the patterns main() appends to those of the ignore file
BuiltinPatterns ==
    <<<<".", "g", "i", "t", "/">>, <<"_", "_", "p", "y", "c", "a", "c", "h", "e", "_", "_", "/">>, <<"*", ".", "p", "y", "c">>, <<".", "D", "S", "_", "S", "t", "o", "r", "e">>,
      <<"n", "o", "d", "e", "_", "m", "o", "d", "u", "l", "e", "s", "/">>, <<".", "v", "s", "c", "o", "d", "e", "/">>, <<".", "i", "d", "e", "a", "/">>, <<"*", ".", "l", "o", "g">>>>

----------------------------------------------------------------------------
(* count_lines and is_text_file, on the files of fs.                       *)

\* the lines iterating a file yields: one per newline, one more for text
\* after the last newline
LinesOf(content) == content.nl + (IF content.tail THEN 1 ELSE 0)

\* without the except clause: OSError from open() propagates
count_lines_NoExcept(file_path) ==
    IF file_path \in failing
    THEN [raised |-> TRUE, value |-> 0]
    ELSE [raised |-> FALSE, value |-> LinesOf(fs.contents[file_path])]

\* lines 35-41: OSError from open() is caught and gives 0
count_lines(file_path) ==
    IF file_path \in failing
    THEN [raised |-> FALSE, value |-> 0]
    ELSE [raised |-> FALSE, value |-> LinesOf(fs.contents[file_path])]

\* pathlib's suffix: from the last '.' of the name, unless that '.' is the
\* first or the last character of the name
suffix(file_path) ==
    LET name == basename(file_path)
        dots == {i \in 1..Len(name) : name[i] = "."}
        last == IF dots = {} THEN 0
                ELSE CHOOSE i \in dots : \A j \in dots : j <= i
    IN  IF 1 < last /\ last < Len(name) THEN SubSeq(name, last, Len(name))
        ELSE <<>>

\* lines 45-52
text_extensions ==
    {<<".", "p", "y">>, <<".", "j", "s">>, <<".", "h", "t", "m", "l">>, <<".", "c", "s", "s">>, <<".", "c", "p", "p">>, <<".", "c">>, <<".", "h">>, <<".", "j", "a", "v", "a">>,
     <<".", "r", "b">>, <<".", "p", "h", "p">>, <<".", "g", "o">>, <<".", "r", "s">>, <<".", "s", "w", "i", "f", "t">>, <<".", "k", "t">>, <<".", "t", "s">>, <<".", "j", "s", "x">>,
     <<".", "t", "s", "x">>, <<".", "v", "u", "e">>, <<".", "s", "c", "s", "s">>, <<".", "s", "a", "s", "s">>, <<".", "l", "e", "s", "s">>, <<".", "s", "q", "l">>, <<".", "s", "h">>,
     <<".", "b", "a", "s", "h">>, <<".", "z", "s", "h">>, <<".", "f", "i", "s", "h">>, <<".", "p", "s", "1">>, <<".", "b", "a", "t">>, <<".", "c", "m", "d">>, <<".", "x", "m", "l">>,
     <<".", "j", "s", "o", "n">>, <<".", "y", "a", "m", "l">>, <<".", "y", "m", "l">>, <<".", "t", "o", "m", "l">>, <<".", "i", "n", "i">>, <<".", "c", "f", "g">>, <<".", "c", "o", "n", "f">>,
     <<".", "t", "x", "t">>, <<".", "m", "d">>, <<".", "r", "s", "t">>, <<".", "t", "e", "x">>, <<".", "r">>, <<".", "R">>, <<".", "m">>, <<".", "p", "l">>,
     <<".", "l", "u", "a">>, <<".", "v", "i", "m">>, <<".", "c", "s">>, <<".", "v", "b">>, <<".", "f", "s">>, <<".", "s", "c", "a", "l", "a">>, <<".", "c", "l", "j">>,
     <<".", "h", "s">>, <<".", "e", "l", "m">>, <<".", "d", "a", "r", "t">>, <<".", "j", "l">>}

\* lines 43-53
is_text_file(file_path) == lower(suffix(file_path)) \in text_extensions

----------------------------------------------------------------------------
(* Paths of the walk.                                                      *)

root_dir == <<".">>

\* os.path.join(a, b), for a relative name b
join(a, b) == a \o <<"/">> \o b

\* os.path.relpath(path, root_dir) for a path os.walk(root_dir) produced
relpath(path) ==
    IF startswith(path, <<".", "/">>) THEN SubSeq(path, 3, Len(path)) ELSE path

\* no pruning: every subdirectory is kept
retained_dirs_NoPrune(top, dirs, patterns) == dirs

\* line 107: the subdirectories the walk keeps, in listing order
retained_dirs(top, dirs, patterns) ==
    SelectSeq(dirs, LAMBDA d : ~should_ignore(relpath(join(top, d)), patterns))

----------------------------------------------------------------------------
(* The report.                                                             *)

\* an entry is <<rel_path, line_count>>
CountOf(entry) == entry[2]

RECURSIVE SumCounts(_)
SumCounts(file_list) ==
    IF file_list = <<>> THEN 0
    ELSE CountOf(Head(file_list)) + SumCounts(Tail(file_list))

\* e put ahead of the entries of equal count: ties come out reversed, as
\* from an ascending sort followed by a reversal
InsertBeforeEqual(sorted, e) ==
    LET ahead == {i \in 1..Len(sorted) : CountOf(sorted[i]) > CountOf(e)}
        k == Cardinality(ahead)
    IN  SubSeq(sorted, 1, k) \o <<e>> \o SubSeq(sorted, k + 1, Len(sorted))

\* where a stable descending sort puts e in a sorted list: after every entry
\* whose count is not smaller
InsertStable(sorted, e) ==
    LET ahead == {i \in 1..Len(sorted) : CountOf(sorted[i]) >= CountOf(e)}
        k == Cardinality(ahead)
    IN  SubSeq(sorted, 1, k) \o <<e>> \o SubSeq(sorted, k + 1, Len(sorted))

\* lines 130-132: list.sort(key=lambda x: x[1], reverse=True), which is stable
RECURSIVE sort_by_count_desc(_)
sort_by_count_desc(file_list) ==
    IF file_list = <<>> THEN <<>>
    ELSE InsertStable(sort_by_count_desc(SubSeq(file_list, 1, Len(file_list) - 1)),
                      file_list[Len(file_list)])

\* lines 66-82: "No files found", or the rows and the two totals
print_file_list(file_list) ==
    IF file_list = <<>>
    THEN [no_files |-> TRUE, rows |-> <<>>, files |-> 0, total_lines |-> 0]
    ELSE [no_files |-> FALSE, rows |-> file_list, files |-> Len(file_list),
          total_lines |-> SumCounts(file_list)]

\* lines 145-148
total_files_of(client, server, other) == Len(client) + Len(server) + Len(other)

\* the sum without the third list
total_lines_of_NoOther(client, server, other) == SumCounts(client) + SumCounts(server)

total_lines_of(client, server, other) ==
    SumCounts(client) + SumCounts(server) + SumCounts(other)

----------------------------------------------------------------------------
(* Values of the variables a harness does not use.                         *)

IdleMatch == m_path = <<>> /\ m_patterns = <<>> /\ m_result = "none"

IdleClass == c_segs = <<>> /\ c_path = <<>> /\ c_category = "none"

NoReport == [printed |-> FALSE]

IdleEnv ==
    /\ fs = [listing |-> <<>>, contents |-> <<>>]
    /\ failing = {}
    /\ gitignore = [exists |-> FALSE, readable |-> FALSE, lines |-> <<>>]

MainAtStart ==
    /\ ignore_patterns = <<>>
    /\ stack = <<>>
    /\ root = <<>>
    /\ files = <<>>
    /\ client_files = <<>>
    /\ server_files = <<>>
    /\ other_files = <<>>
    /\ visited = {}
    /\ walk_order = <<>>
    /\ raised_in = "none"
    /\ report = NoReport

IdleMain == IdleEnv /\ MainAtStart

----------------------------------------------------------------------------
(* The matcher harness: one call of should_ignore on a bounded input.      *)

Paths == StringsOver(PathChars, MaxPathLen)

Patterns == StringsOver(PatChars, MaxPatLen)

\* a pattern that accompanies the drawn one, before or after it in the list:
\* a directory pattern, the shape of main()'s built-in 'node_modules/'
OtherPatterns == {<<"a", "/">>}

\* the patterns drawn into a list of two: one character shorter
ShortPatterns == StringsOver(PatChars, MaxPatLen - 1)

PatternLists ==
    {<<q>> : q \in Patterns}
        \cup {<<q, o>> : q \in ShortPatterns, o \in OtherPatterns}
        \cup {<<o, q>> : q \in ShortPatterns, o \in OtherPatterns}

InitMatch ==
    /\ pc = "call"
    /\ m_path \in Paths
    /\ m_patterns \in PatternLists
    /\ m_result = "none"
    /\ IdleClass
    /\ IdleMain

CallShouldIgnore ==
    /\ pc = "call"
    /\ m_result' = should_ignore(m_path, m_patterns)
    /\ pc' = "returned"
    /\ UNCHANGED <<m_path, m_patterns, classVars, envVars, mainVars>>

NextMatch == CallShouldIgnore

SpecMatch == InitMatch /\ [][NextMatch]_vars

----------------------------------------------------------------------------
(* The classifier harness: one call of categorize_file on a path built of  *)
(* up to MaxSegs segments joined by '/' or '\'.                            *)

Segments ==
    {<<"c", "l", "i", "e", "n", "t">>, <<"C", "l", "i", "e", "n", "t">>, <<"s", "e", "r", "v", "e", "r">>, <<"S", "E", "R", "V", "E", "R">>, <<"l", "i", "b">>, <<"x", "c", "l", "i", "e", "n", "t">>,
     <<"x", ".", "t", "s">>, <<>>}

Separators == {"/", "\\"}

\* segs[1] sep[1] segs[2] ... : the path text
RECURSIVE JoinSegs(_, _)
JoinSegs(segs, seps) ==
    IF Len(segs) = 1 THEN segs[1]
    ELSE JoinSegs(SubSeq(segs, 1, Len(segs) - 1), SubSeq(seps, 1, Len(seps) - 1))
            \o <<seps[Len(seps)]>> \o segs[Len(segs)]

InitClass ==
    /\ pc = "call"
    /\ \E n \in 1..MaxSegs :
        /\ c_segs \in [1..n -> Segments]
        /\ \E seps \in [1..(n - 1) -> Separators] : c_path = JoinSegs(c_segs, seps)
    /\ c_category = "none"
    /\ IdleMatch
    /\ IdleMain

CallCategorizeFile ==
    /\ pc = "call"
    /\ c_category' = categorize_file(c_path)
    /\ pc' = "returned"
    /\ UNCHANGED <<c_segs, c_path, matchVars, envVars, mainVars>>

NextClass == CallCategorizeFile

SpecClass == InitClass /\ [][NextClass]_vars

----------------------------------------------------------------------------
(* The trees and ignore files main() is run on.                            *)

\* most files of a tree whose open() fails
MaxFailing == 1

Dir(dirs, names) == [dirs |-> dirs, files |-> names]

File(nl, tail) == [nl |-> nl, tail |-> tail]

\* client/app.ts (10 lines), server/main.go (20 lines), README.md (5 lines)
ScenarioTree ==
    [listing |->
        (<<".">> :> Dir({<<"c", "l", "i", "e", "n", "t">>, <<"s", "e", "r", "v", "e", "r">>}, {<<"R", "E", "A", "D", "M", "E", ".", "m", "d">>}))
        @@ (<<".", "/", "c", "l", "i", "e", "n", "t">> :> Dir({}, {<<"a", "p", "p", ".", "t", "s">>}))
        @@ (<<".", "/", "s", "e", "r", "v", "e", "r">> :> Dir({}, {<<"m", "a", "i", "n", ".", "g", "o">>})),
     contents |->
        (<<".", "/", "c", "l", "i", "e", "n", "t", "/", "a", "p", "p", ".", "t", "s">> :> File(10, FALSE))
        @@ (<<".", "/", "s", "e", "r", "v", "e", "r", "/", "m", "a", "i", "n", ".", "g", "o">> :> File(20, FALSE))
        @@ (<<".", "/", "R", "E", "A", "D", "M", "E", ".", "m", "d">> :> File(5, FALSE))]

\* a project with client and server code, a dependency cache, a build
\* directory, a text file and an image; a.ts and b.js hold ca and cb
ProjectTree(ca, cb) ==
    [listing |->
        (<<".">> :> Dir({<<"c", "l", "i", "e", "n", "t">>, <<"s", "e", "r", "v", "e", "r">>, <<"n", "o", "d", "e", "_", "m", "o", "d", "u", "l", "e", "s">>},
                      {<<"n", "o", "t", "e", "s", ".", "t", "x", "t">>, <<"l", "o", "g", "o", ".", "p", "n", "g">>}))
        @@ (<<".", "/", "c", "l", "i", "e", "n", "t">> :> Dir({}, {<<"a", ".", "t", "s">>, <<"b", ".", "j", "s">>}))
        @@ (<<".", "/", "s", "e", "r", "v", "e", "r">> :> Dir({<<"c", "l", "i", "e", "n", "t">>, <<"b", "u", "i", "l", "d">>}, {<<"m", "a", "i", "n", ".", "g", "o">>}))
        @@ (<<".", "/", "s", "e", "r", "v", "e", "r", "/", "c", "l", "i", "e", "n", "t">> :> Dir({}, {<<"x", ".", "t", "s">>}))
        @@ (<<".", "/", "s", "e", "r", "v", "e", "r", "/", "b", "u", "i", "l", "d">> :> Dir({}, {<<"o", "u", "t", ".", "j", "s">>}))
        @@ (<<".", "/", "n", "o", "d", "e", "_", "m", "o", "d", "u", "l", "e", "s">> :> Dir({<<"p", "k", "g">>}, {}))
        @@ (<<".", "/", "n", "o", "d", "e", "_", "m", "o", "d", "u", "l", "e", "s", "/", "p", "k", "g">> :> Dir({}, {<<"i", "n", "d", "e", "x", ".", "j", "s">>})),
     contents |->
        (<<".", "/", "c", "l", "i", "e", "n", "t", "/", "a", ".", "t", "s">> :> ca)
        @@ (<<".", "/", "c", "l", "i", "e", "n", "t", "/", "b", ".", "j", "s">> :> cb)
        @@ (<<".", "/", "s", "e", "r", "v", "e", "r", "/", "m", "a", "i", "n", ".", "g", "o">> :> File(2, TRUE))
        @@ (<<".", "/", "s", "e", "r", "v", "e", "r", "/", "c", "l", "i", "e", "n", "t", "/", "x", ".", "t", "s">> :> File(1, FALSE))
        @@ (<<".", "/", "s", "e", "r", "v", "e", "r", "/", "b", "u", "i", "l", "d", "/", "o", "u", "t", ".", "j", "s">> :> File(4, FALSE))
        @@ (<<".", "/", "n", "o", "d", "e", "_", "m", "o", "d", "u", "l", "e", "s", "/", "p", "k", "g", "/", "i", "n", "d", "e", "x", ".", "j", "s">> :> File(7, FALSE))
        @@ (<<".", "/", "n", "o", "t", "e", "s", ".", "t", "x", "t">> :> File(2, TRUE))
        @@ (<<".", "/", "l", "o", "g", "o", ".", "p", "n", "g">> :> File(1, TRUE))]

Contents == [nl : 0..MaxNewlines, tail : BOOLEAN]

Trees == {ScenarioTree} \cup {ProjectTree(ca, cb) : ca, cb \in Contents}

\* the files whose open() may fail
FailingCandidates(tree) ==
    DOMAIN tree.contents \cap
        {<<".", "/", "c", "l", "i", "e", "n", "t", "/", "a", "p", "p", ".", "t", "s">>, <<".", "/", "R", "E", "A", "D", "M", "E", ".", "m", "d">>, <<".", "/", "c", "l", "i", "e", "n", "t", "/", "a", ".", "t", "s">>, <<".", "/", "s", "e", "r", "v", "e", "r", "/", "m", "a", "i", "n", ".", "g", "o">>}

Missing == [exists |-> FALSE, readable |-> FALSE, lines |-> <<>>]

Unreadable == [exists |-> TRUE, readable |-> FALSE, lines |-> <<>>]

Readable(lines) == [exists |-> TRUE, readable |-> TRUE, lines |-> lines]

IgnoreFiles ==
    {Missing,
     Unreadable,
     Readable(<<<<"*", ".", "m", "d", "\n">>>>),
     Readable(<<<<"#", " ", "b", "u", "i", "l", "d", " ", "o", "u", "t", "p", "u", "t", "\n">>, <<"\n">>, <<" ", " ", "b", "u", "i", "l", "d", "/", " ", "\n">>, <<"n", "o", "t", "e", "s", ".", "*", "0xFF", "\n">>>>)}

\* the ignore files a tree is run with: '*.md' only where a .md file is
IgnoreFilesFor(tree) ==
    IF <<".", "/", "R", "E", "A", "D", "M", "E", ".", "m", "d">> \in DOMAIN tree.contents THEN IgnoreFiles
    ELSE IgnoreFiles \ {Readable(<<<<"*", ".", "m", "d", "\n">>>>)}

----------------------------------------------------------------------------
(* main()                                                                  *)

Init ==
    /\ pc = "start"
    /\ fs \in Trees
    /\ failing \in {F \in SUBSET FailingCandidates(fs) : Cardinality(F) <= MaxFailing}
    /\ gitignore \in IgnoreFilesFor(fs)
    /\ MainAtStart
    /\ IdleMatch
    /\ IdleClass

\* the orders in which a directory listing can come
Orders(S) ==
    {o \in [1..Cardinality(S) -> S] : \A i, j \in 1..Cardinality(S) : o[i] = o[j] => i = j}

\* lines 85-103: the patterns of the ignore file, then the built-in ones
LoadPatterns ==
    /\ pc = "start"
    /\ LET parsed == parse_gitignore(gitignore)
       IN  IF parsed.raised
           THEN /\ pc' = "raised"
                /\ raised_in' = "parse_gitignore"
                /\ UNCHANGED <<ignore_patterns, stack>>
           ELSE /\ pc' = "walk"
                /\ ignore_patterns' = parsed.value \o BuiltinPatterns
                /\ stack' = <<root_dir>>
                /\ UNCHANGED raised_in
    /\ UNCHANGED <<root, files, client_files, server_files, other_files, visited,
                   walk_order, report, matchVars, classVars, envVars>>

\* lines 105-107: os.walk yields the next directory, top-down; the loop body
\* prunes its subdirectories, and os.walk descends into those left, in order
WalkDir ==
    /\ pc = "walk"
    /\ stack # <<>>
    /\ LET top == Head(stack)
       IN  \E dirs \in Orders(fs.listing[top].dirs), names \in Orders(fs.listing[top].files) :
            \E kept \in {retained_dirs(top, dirs, ignore_patterns)} :
                /\ root' = top
                /\ files' = names
                /\ stack' = [i \in 1..Len(kept) |-> join(top, kept[i])] \o Tail(stack)
                /\ visited' = visited \cup {top}
                /\ pc' = IF names = <<>> THEN "walk" ELSE "files"
    /\ UNCHANGED <<ignore_patterns, client_files, server_files, other_files,
                   walk_order, raised_in, report, matchVars, classVars, envVars>>

\* a count of 0 recorded as well
is_recorded_NonNegative(line_count) == line_count >= 0

\* line 118: whether a counted file is recorded
is_recorded(line_count) == line_count > 0

\* lines 109-127: one iteration of the loop over the files of a directory
ProcessFile ==
    /\ pc = "files"
    /\ LET file == Head(files)
           file_path == join(root, file)
           rel_path == relpath(file_path)
           counted == count_lines(file_path)
           line_count == counted.value
           category == categorize_file(rel_path)
           file_entry == <<rel_path, line_count>>
       IN  \E skipped \in {should_ignore(rel_path, ignore_patterns) \/ ~is_text_file(file_path)} :
           \E recorded \in {~skipped /\ ~counted.raised /\ is_recorded(line_count)} :
           /\ walk_order' = Append(walk_order, rel_path)
           /\ files' = Tail(files)
           /\ IF ~skipped /\ counted.raised
              THEN pc' = "raised" /\ raised_in' = "count_lines"
              ELSE /\ pc' = IF Tail(files) = <<>> THEN "walk" ELSE "files"
                   /\ UNCHANGED raised_in
           /\ client_files' = IF recorded /\ category = "client"
                              THEN Append(client_files, file_entry) ELSE client_files
           /\ server_files' = IF recorded /\ category = "server"
                              THEN Append(server_files, file_entry) ELSE server_files
           /\ other_files' = IF recorded /\ category \notin {"client", "server"}
                             THEN Append(other_files, file_entry) ELSE other_files
    /\ UNCHANGED <<ignore_patterns, stack, root, visited, report,
                   matchVars, classVars, envVars>>

\* lines 129-156: the three sorts, the three sections, the summary
Report ==
    /\ pc = "walk"
    /\ stack = <<>>
    /\ client_files' = sort_by_count_desc(client_files)
    /\ server_files' = sort_by_count_desc(server_files)
    /\ other_files' = sort_by_count_desc(other_files)
    /\ report' = [printed |-> TRUE,
                  client |-> print_file_list(client_files'),
                  server |-> print_file_list(server_files'),
                  other |-> print_file_list(other_files'),
                  total_files |-> total_files_of(client_files', server_files', other_files'),
                  total_lines |-> total_lines_of(client_files', server_files', other_files'),
                  client_count |-> Len(client_files'),
                  server_count |-> Len(server_files'),
                  other_count |-> Len(other_files')]
    /\ pc' = "done"
    /\ UNCHANGED <<ignore_patterns, stack, root, files, visited, walk_order,
                   raised_in, matchVars, classVars, envVars>>

Next == LoadPatterns \/ WalkDir \/ ProcessFile \/ Report

Spec == Init /\ [][Next]_vars

----------------------------------------------------------------------------
(* Claims about should_ignore, checked under SpecMatch.                    *)

Returned == pc = "returned"

NormPath == replace_backslash(m_path)

\* C2: whenever the basename of the (normalised) path matches some pattern
\* of the list as a plain glob, should_ignore returns True.
C2_BasenameMatchIgnored ==
    (Returned /\ \E k \in 1..Len(m_patterns) :
                    fnmatch(basename(NormPath), m_patterns[k]))
        => m_result = TRUE

\* a call where only the basename, not the whole path, matches a pattern
C2_Witness ==
    /\ Returned
    /\ m_result = TRUE
    /\ basename(NormPath) # NormPath
    /\ basename(NormPath) # <<>>
    /\ m_path[1] = "a"
    /\ \E k \in 1..Len(m_patterns) :
            /\ fnmatch(basename(NormPath), m_patterns[k])
            /\ ~fnmatch(NormPath, m_patterns[k])
    /\ \A k \in 1..Len(m_patterns) : ~endswith(m_patterns[k], <<"/">>)

\* the d of a directory-style pattern 'd/'
DirOf(pattern) == SubSeq(pattern, 1, Len(pattern) - 1)

IsDirPattern(pattern) == endswith(pattern, <<"/">>)

\* P is exactly d, or P ends with the segment d
ExactlyOrEndsWithSegment(P, d) == P = d \/ endswith(P, <<"/">> \o d)

\* d holds no '[' and no backslash
PlainDir(d) == \A i \in 1..Len(d) : d[i] \notin {"[", "\\"}

\* C3 as stated: for every directory-style pattern 'd/' of the list, a path
\* that is exactly d, or ends with the segment d, is ignored.
C3_Original ==
    Returned =>
        \A k \in 1..Len(m_patterns) :
            (/\ IsDirPattern(m_patterns[k])
             /\ \/ ExactlyOrEndsWithSegment(m_path, DirOf(m_patterns[k]))
                \/ fnmatch(NormPath \o <<"/">>, <<"*", "/">> \o m_patterns[k]))
                => m_result = TRUE

\* C3 amended: the same, for a d that holds no '[' and no backslash; and for
\* any d, a path P such that P + '/' matches the glob 'd/' or '*/d/' is
\* ignored, whatever the other patterns of the list and their order.
C3_DirPatternIgnored ==
    Returned =>
        \A k \in 1..Len(m_patterns) :
            IsDirPattern(m_patterns[k]) =>
                /\ (/\ PlainDir(DirOf(m_patterns[k]))
                    /\ ExactlyOrEndsWithSegment(m_path, DirOf(m_patterns[k])))
                        => m_result = TRUE
                /\ (\/ fnmatch(NormPath \o <<"/">>, m_patterns[k])
                    \/ fnmatch(NormPath \o <<"/">>, <<"*", "/">> \o m_patterns[k]))
                        => m_result = TRUE

\* a path ending with the segment d of a directory pattern that comes after
\* another pattern, which does not hit
C3_Witness ==
    /\ Returned
    /\ m_result = TRUE
    /\ Len(m_patterns) = 2
    /\ IsDirPattern(m_patterns[2])
    /\ Len(DirOf(m_patterns[2])) > 0
    /\ PlainDir(DirOf(m_patterns[2]))
    /\ m_path # DirOf(m_patterns[2])
    /\ Len(m_path) > 0
    /\ m_path[1] = "a"
    /\ ~contains(DirOf(m_patterns[2]), <<"/">>)
    /\ endswith(m_path, <<"/">> \o DirOf(m_patterns[2]))
    /\ ~PatternHit(NormPath, m_patterns[1])

\* the three tests of the matcher combined by inclusive OR, the
\* basename/simple test applied to every pattern unconditionally
InclusiveOr(p, pattern) ==
    \/ IsDirPattern(pattern) /\ DirectoryTest(p, pattern)
    \/ ~IsDirPattern(pattern) /\ PathScopedTest(p, pattern)
    \/ SimpleTest(p, pattern)

\* C4 as stated: the simple test is evaluated for every pattern, also one
\* that ends with '/', and the result is the inclusive OR of the three tests
\* over all patterns.
C4_Original ==
    Returned =>
        /\ \A k \in 1..Len(m_patterns) :
                SimpleTest(NormPath, m_patterns[k]) => m_result = TRUE
        /\ m_result = (\E k \in 1..Len(m_patterns) :
                            InclusiveOr(NormPath, m_patterns[k]))

\* C4 amended: the simple test is evaluated only for a pattern that does
\* not end with '/'; for such a pattern a match of the path or of its
\* basename makes the result True, and so does a match of '*/<pattern>'
\* when the pattern holds a '/'; a pattern that ends with '/' contributes
\* the directory test alone.  The result is the OR of these over the list.
C4_TestsByPatternShape ==
    Returned =>
        /\ \A k \in 1..Len(m_patterns) :
                (~IsDirPattern(m_patterns[k]) /\ SimpleTest(NormPath, m_patterns[k]))
                    => m_result = TRUE
        /\ m_result =
              (\E k \in 1..Len(m_patterns) :
                  \/ /\ IsDirPattern(m_patterns[k])
                     /\ \/ fnmatch(NormPath \o <<"/">>, m_patterns[k])
                        \/ fnmatch(NormPath \o <<"/">>, <<"*", "/">> \o m_patterns[k])
                  \/ /\ ~IsDirPattern(m_patterns[k])
                     /\ \/ fnmatch(NormPath, m_patterns[k])
                        \/ fnmatch(basename(NormPath), m_patterns[k])
                        \/ /\ contains(m_patterns[k], <<"/">>)
                           /\ fnmatch(NormPath, <<"*", "/">> \o m_patterns[k]))

\* a path ending with the separator that matches a directory pattern as a
\* plain glob and is not ignored: the simple test was not applied to it
C4_Witness ==
    /\ Returned
    /\ m_result = FALSE
    /\ \E k \in 1..Len(m_patterns) :
            /\ IsDirPattern(m_patterns[k])
            /\ fnmatch(NormPath, m_patterns[k])

----------------------------------------------------------------------------
(* Claims about categorize_file, checked under SpecClass.                  *)

\* some segment of the path other than the last is w, whatever its case
HasDirSegment(w) == \E i \in 1..(Len(c_segs) - 1) : lower(c_segs[i]) = w

\* the example paths of the claim
C6_Examples ==
    /\ categorize_file(<<"c", "l", "i", "e", "n", "t", "/", "f", "o", "o", ".", "g", "o">>) = "client"
    /\ categorize_file(<<"S", "e", "r", "v", "e", "r", "/", "F", "o", "o", ".", "T", "S">>) = "server"
    /\ categorize_file(<<"l", "i", "b", "/", "f", "o", "o", ".", "p", "y">>) = "other"
    /\ categorize_file(<<"s", "e", "r", "v", "e", "r", "/", "c", "l", "i", "e", "n", "t", "/", "x", ".", "t", "s">>) = "client"

\* C6: categorize_file is total onto {client, server, other}, decided on the
\* normalised lower-cased path, client before server: client iff a directory
\* segment is 'client', else server iff a directory segment is 'server',
\* else other; with the four example paths of the claim.
C6_Categorize ==
    /\ Returned =>
        /\ c_category \in {"client", "server", "other"}
        /\ c_category = "client" <=> HasDirSegment(<<"c", "l", "i", "e", "n", "t">>)
        /\ c_category = "server" <=>
                (~HasDirSegment(<<"c", "l", "i", "e", "n", "t">>) /\ HasDirSegment(<<"s", "e", "r", "v", "e", "r">>))
        /\ c_category = "client" <=>
                LET n == lower(replace_backslash(c_path))
                IN  contains(n, <<"/", "c", "l", "i", "e", "n", "t", "/">>) \/ startswith(n, <<"c", "l", "i", "e", "n", "t", "/">>)
    /\ C6_Examples

\* a path with both markers, the server one first, in mixed case and with a
\* backslash, classified as client
C6_Witness ==
    /\ Returned
    /\ c_category = "client"
    /\ Len(c_segs) = 3
    /\ c_segs[1] = <<"S", "E", "R", "V", "E", "R">>
    /\ c_segs[2] = <<"C", "l", "i", "e", "n", "t">>
    /\ c_segs[3] = <<"x", ".", "t", "s">>
    /\ contains(c_path, <<"\\">>)

----------------------------------------------------------------------------
(* Claims about main(), checked under Spec.                                *)

Done == pc = "done"

AllFiles == DOMAIN fs.contents

Entries(file_list) == {file_list[i] : i \in 1..Len(file_list)}

AllEntries == Entries(client_files) \cup Entries(server_files) \cup Entries(other_files)

Iterated == {walk_order[k] : k \in 1..Len(walk_order)}

\* the directories a relative path lies beneath
DirsAbove(rel) == {SubSeq(rel, 1, i - 1) : i \in {i \in 1..Len(rel) : rel[i] = "/"}}

BeneathIgnored(rel) == \E D \in DirsAbove(rel) : should_ignore(D, ignore_patterns)

\* the directories in the descent list or already visited, the root apart
DescentDirs == {relpath(d) : d \in (visited \cup {stack[i] : i \in 1..Len(stack)}) \ {root_dir}}

\* the directories above a file that was iterated or recorded, or above a
\* directory of the descent
DirsAboveSeen ==
    UNION {DirsAbove(rel) : rel \in Iterated \cup {e[1] : e \in AllEntries} \cup DescentDirs}

\* C1: a subdirectory that should_ignore judges ignored never enters the
\* descent list and is never visited, and no file anywhere beneath such a
\* directory is iterated or appears in one of the three lists.
C1_IgnoredDirsPruned ==
    \A D \in DescentDirs \cup DirsAboveSeen : ~should_ignore(D, ignore_patterns)

\* a finished walk of a tree with countable text files beneath node_modules/
\* and beneath a build/ directory that the ignore file names
C1_Witness ==
    /\ Done
    /\ client_files # <<>>
    /\ \E f, g \in AllFiles :
        /\ startswith(relpath(f), <<"n", "o", "d", "e", "_", "m", "o", "d", "u", "l", "e", "s", "/">>)
        /\ startswith(relpath(g), <<"s", "e", "r", "v", "e", "r", "/", "b", "u", "i", "l", "d", "/">>)
        /\ \A h \in {f, g} :
            /\ BeneathIgnored(relpath(h))
            /\ ~should_ignore(relpath(h), ignore_patterns)
            /\ is_text_file(h)
            /\ count_lines(h).value > 0

\* C5: every entry of the three lists has a count above 0, during the walk
\* and at report time.
C5_NoZeroCount == \A e \in AllEntries : CountOf(e) > 0

\* a finished walk that iterated an empty text file and a failing one, both
\* not ignored, and recorded other files
C5_Witness ==
    /\ Done
    /\ AllEntries # {}
    /\ \E f, g \in AllFiles :
        /\ f \notin failing /\ LinesOf(fs.contents[f]) = 0
        /\ g \in failing /\ LinesOf(fs.contents[g]) > 0
        /\ \A h \in {f, g} :
            /\ relpath(h) \in Iterated
            /\ ~should_ignore(relpath(h), ignore_patterns)
            /\ is_text_file(h)
            /\ \A e \in AllEntries : e[1] # relpath(h)

Occurrences(file_list, e) == Cardinality({i \in 1..Len(file_list) : file_list[i] = e})

IndexIn(file_list, e) == CHOOSE i \in 1..Len(file_list) : file_list[i] = e

\* after is before, stably sorted by descending count
StableDescending(before, after) ==
    /\ Len(after) = Len(before)
    /\ \A e \in Entries(before) \cup Entries(after) :
            Occurrences(after, e) = Occurrences(before, e)
    /\ \A i, j \in 1..Len(after) : i < j => CountOf(after[i]) >= CountOf(after[j])
    /\ \A i, j \in 1..Len(before) :
            (i < j /\ CountOf(before[i]) = CountOf(before[j]))
                => IndexIn(after, before[i]) < IndexIn(after, before[j])

\* C7: the order the report prints each list in is a permutation of the
\* entries the walk appended, non-increasing in count, entries of equal
\* count in the order the walk appended them.
C7_StableSort ==
    [][(pc = "walk" /\ pc' = "done") =>
            /\ StableDescending(client_files, client_files')
            /\ StableDescending(server_files, server_files')
            /\ StableDescending(other_files, other_files')
            /\ report'.client.rows = client_files'
            /\ report'.server.rows = server_files'
            /\ report'.other.rows = other_files']_vars

PositionInWalk(rel) == CHOOSE k \in 1..Len(walk_order) : walk_order[k] = rel

\* a report whose client list holds a tie and a larger count, and where the
\* sort moved an entry ahead of one the walk had appended before it
C7_Witness ==
    /\ Done
    /\ Len(client_files) = 3
    /\ CountOf(client_files[1]) > CountOf(client_files[2])
    /\ CountOf(client_files[2]) = CountOf(client_files[3])
    /\ PositionInWalk(client_files[1][1]) > PositionInWalk(client_files[3][1])

\* C8 as stated: loading the ignore file never aborts the run; a missing,
\* unreadable or undecodable ignore file leaves the built-in patterns and
\* the run goes on to the report.
C8_Original ==
    /\ pc # "raised"
    /\ raised_in # "parse_gitignore"
    /\ (pc # "start" /\ (~gitignore.exists \/ ~gitignore.readable))
            => ignore_patterns = BuiltinPatterns

\* the ignored directories of the tree
IgnoredDirs ==
    {D \in UNION {DirsAbove(relpath(f)) : f \in AllFiles} :
        should_ignore(D, ignore_patterns)}

\* the files that lie beneath no ignored directory
ReachableFiles ==
    UNION {{f \in AllFiles : DirsAbove(relpath(f)) \cap ignored = {}} :
                ignored \in {IgnoredDirs}}

\* the reachable files that are not ignored and have a recognised extension
CountedFiles ==
    {f \in ReachableFiles :
        ~should_ignore(relpath(f), ignore_patterns) /\ is_text_file(f)}

\* among `counted`, the entries of a category when the files in `gone` are
\* taken not to exist, each with the lines of its content
ExpectedWithout(counted, gone, category) ==
    {<<relpath(f), LinesOf(fs.contents[f])>> : f \in
        {f \in counted \ gone :
            /\ LinesOf(fs.contents[f]) > 0
            /\ categorize_file(relpath(f)) = category}}

\* C9: count_lines gives 0 for a file whose open() fails and raises nothing;
\* such a file enters none of the lists, the walk goes on to every later
\* file, and the lists end as they would had the failing files not existed.
C9_CountFailureAbsorbed ==
    /\ raised_in # "count_lines"
    /\ \A f \in failing : count_lines(f) = [raised |-> FALSE, value |-> 0]
    /\ \A e \in AllEntries : join(root_dir, e[1]) \notin failing
    /\ Done =>
        /\ \A f \in ReachableFiles : relpath(f) \in Iterated
        /\ \A counted \in {CountedFiles} :
            /\ Entries(client_files) = ExpectedWithout(counted, failing, "client")
            /\ Entries(server_files) = ExpectedWithout(counted, failing, "server")
            /\ Entries(other_files) = ExpectedWithout(counted, failing, "other")

\* a finished walk that met a failing, countable text file and recorded a
\* file it iterated later
C9_Witness ==
    /\ Done
    /\ \E k, n \in 1..Len(walk_order) :
        /\ k < n
        /\ join(root_dir, walk_order[k]) \in failing
        /\ is_text_file(walk_order[k])
        /\ ~should_ignore(walk_order[k], ignore_patterns)
        /\ LinesOf(fs.contents[join(root_dir, walk_order[k])]) > 0
        /\ \E e \in AllEntries : e[1] = walk_order[n]

RECURSIVE SumOfCounts(_)
SumOfCounts(entries) ==
    IF entries = {} THEN 0
    ELSE LET e == CHOOSE x \in entries : TRUE
         IN  CountOf(e) + SumOfCounts(entries \ {e})

\* among `counted` (the files that are not ignored, nor beneath an ignored
\* directory, and have a recognised extension), the entries of a category:
\* the files count_lines counts above 0
Expected(counted, category) ==
    {<<relpath(f), count_lines(f).value>> : f \in
        {f \in counted :
            /\ count_lines(f).value > 0
            /\ categorize_file(relpath(f)) = category}}

ScenarioRun ==
    /\ fs = ScenarioTree
    /\ failing = {}
    /\ gitignore = Readable(<<<<"*", ".", "m", "d", "\n">>>>)

\* C10: the summary agrees with the sections: total files is the sum of the
\* three file counts, total lines the sum of the three line sums, each
\* section covering exactly the non-ignored, recognised, non-empty files of
\* its category; the scenario tree with '*.md' gives 1/10, 1/20, 0 and 2/30.
C10_SummaryConsistent ==
    Done =>
        /\ report.total_files = report.client.files + report.server.files + report.other.files
        /\ report.total_lines = report.client.total_lines + report.server.total_lines
                                    + report.other.total_lines
        /\ report.client_count = report.client.files
        /\ report.server_count = report.server.files
        /\ report.other_count = report.other.files
        /\ \A counted \in {CountedFiles} :
           \A c \in {"client", "server", "other"} :
           \A expected \in {Expected(counted, c)} :
            LET section == IF c = "client" THEN report.client
                           ELSE IF c = "server" THEN report.server ELSE report.other
            IN  /\ Entries(section.rows) = expected
                /\ section.files = Cardinality(expected)
                /\ section.total_lines = SumOfCounts(expected)
                /\ section.no_files <=> expected = {}
        /\ ScenarioRun =>
            /\ report.client.files = 1 /\ report.client.total_lines = 10
            /\ report.server.files = 1 /\ report.server.total_lines = 20
            /\ report.other.no_files /\ report.other_count = 0
            /\ report.total_files = 2 /\ report.total_lines = 30

\* the report of the scenario run
C10_Witness ==
    /\ Done
    /\ ScenarioRun
    /\ report.total_files = 2
    /\ report.total_lines = 30

====
